---------------------------- MODULE Spec2Model ----------------------------
(***************************************************************************)
(* A model of the in-process rate limiter of app/utils/rate_limiter.py and *)
(* of the submit_form request handler of app/main.py that calls it.        *)
(*                                                                         *)
(* Time is an integer clock `now` that never decreases (time.time()).      *)
(* The window configuration of RateLimiter.__init__ is kept in shape       *)
(* (three nested windows, per_minute < per_hour < per_day in duration and  *)
(* in limit, each shorter window letting through more requests per longer  *)
(* window than the longer window's limit: 10/60 s is 600/h > 100, and      *)
(* 100/h is 2400/d > 1000) but scaled down to a few clock ticks so that    *)
(* every window fills, expires and overlaps within the explored runs.      *)
(***************************************************************************)
EXTENDS Integers, Sequences, FiniteSets, TLC

VARIABLES
    now,        \* the clock read by time.time()
    requests,   \* RateLimiter.requests: client_id -> deque of timestamps
    recording,  \* which history this run keeps (fixed by Init): "none",
                \* "admitted" or "denial"
    admitted,   \* history: per client_id, the call times is_allowed admitted
    denial,     \* history: per client_id, the latest denial not yet followed
                \* by another request of that client
    last,       \* the latest completed operation with its inputs and result
    pc,         \* per worker: position inside the operation it runs
                \* (concurrent runs)
    loc         \* per worker: the locals of that operation

vars == <<now, requests, recording, admitted, denial, last, pc, loc>>

---------------------------------------------------------------------------
(* Bounds of the exploration.                                              *)

\* the clock runs over 0..MaxTime
MaxTime == 5
\* limits['per_minute'] (10 in the source), scaled
LimitPerMinute == 2
\* limits['per_hour'] (100 in the source), scaled
LimitPerHour == 3
\* limits['per_day'] (1000 in the source), scaled
LimitPerDay == 4
\* windows['per_minute'] (60 s in the source), in clock ticks
WindowPerMinute == 2
\* windows['per_hour'] (3600 s in the source), in clock ticks
WindowPerHour == 4
\* windows['per_day'] (86400 s in the source), in clock ticks
WindowPerDay == 5
\* cleanup_old_entries is called with max_age_hours in 0..MaxAgeHours
MaxAgeHours == 1

---------------------------------------------------------------------------
(* Configuration: RateLimiter.__init__.                                    *)

\* the keys of self.limits / self.windows in insertion (iteration) order
LimitTypes == <<"per_minute", "per_hour", "per_day">>

limits == [per_minute |-> LimitPerMinute,
           per_hour   |-> LimitPerHour,
           per_day    |-> LimitPerDay]

windows == [per_minute |-> WindowPerMinute,
            per_hour   |-> WindowPerHour,
            per_day    |-> WindowPerDay]

\* the number of seconds in max_age_hours' unit (the 3600 of cleanup_old_entries),
\* the same quantity as windows['per_hour']
SecondsPerHour == WindowPerHour

Max(a, b) == IF a >= b THEN a ELSE b

\* max(self.limits.values())
max_stored_requests ==
    Max(limits["per_minute"], Max(limits["per_hour"], limits["per_day"]))

---------------------------------------------------------------------------
(* Inputs.                                                                 *)

\* client addresses: none resolvable (""), or an address
ClientIps == {"", "a"}
\* credentials passed to the limiter: none (""), or a key
ApiKeys == {"", "k"}
Time == 0..MaxTime
\* the concurrent workers (threads) serving requests
Workers == {"w1", "w2"}

\* client_id = f"{client_ip}:{api_key}" if api_key else client_ip
ClientId(client_ip, api_key) ==
    IF api_key # "" THEN client_ip \o ":" \o api_key ELSE client_ip

\* every client_id the inputs derive from a non-empty address
ClientIds == {ClientId(ip, k) : ip \in ClientIps \ {""}, k \in ApiKeys}

\* defaultdict(deque): reading a missing key yields an empty deque
Log(reqs, client_id) ==
    IF client_id \in DOMAIN reqs THEN reqs[client_id] ELSE <<>>

\* Store binding every client of the map to log: one bucket for all clients
StoreShared(reqs, client_id, log) ==
    [k \in DOMAIN reqs \cup {client_id} |-> log]

\* the map with client_id bound to log (inserting the key when absent)
Store(reqs, client_id, log) ==
    [k \in DOMAIN reqs \cup {client_id} |->
        IF k = client_id THEN log ELSE reqs[k]]

---------------------------------------------------------------------------
(* _check_and_update_limits, run without interruption.                     *)

RECURSIVE PruneLate(_, _)
\* Prune one tick late: an entry is popped only once it is more than one tick
\* older than the cutoff
PruneLate(log, cutoff_time) ==
    IF log # <<>> /\ Head(log) < cutoff_time - 1
    THEN PruneLate(Tail(log), cutoff_time)
    ELSE log

RECURSIVE Prune(_, _)
\* while client_requests and client_requests[0] < cutoff_time: popleft()
Prune(log, cutoff_time) ==
    IF log # <<>> /\ Head(log) < cutoff_time
    THEN Prune(Tail(log), cutoff_time)
    ELSE log

\* if len(client_requests) >= limit_count: return False
Exceeded(log, limit_count) == Len(log) >= limit_count

RECURSIVE CheckWindows(_, _, _)
\* the for loop over self.limits.items(), from its i-th window on: the deque
\* as pruned so far, whether every window passed, and the window that denied
CheckWindows(log, current_time, i) ==
    IF i > Len(LimitTypes)
    THEN [log |-> log, ok |-> TRUE, by |-> "none"]
    ELSE LET limit_type == LimitTypes[i]
             pruned == Prune(log, current_time - windows[limit_type])
         IN  IF Exceeded(pruned, limits[limit_type])
             THEN [log |-> pruned, ok |-> FALSE, by |-> limit_type]
             ELSE CheckWindows(pruned, current_time, i + 1)

RECURSIVE Cap(_, _)
\* while len(client_requests) > max_stored_requests: popleft()
Cap(log, max_stored) ==
    IF Len(log) > max_stored THEN Cap(Tail(log), max_stored) ELSE log

\* check_and_update_limits without the limit test and without the cap
AppendUnchecked(log, current_time) ==
    [log |-> Append(Prune(log, current_time - windows["per_minute"]),
                    current_time),
     ret |-> TRUE, by |-> "none"]

\* check_and_update_limits recording the call also when it is denied
CheckAndRecordDenied(log, current_time) ==
    LET c == CheckWindows(log, current_time, 1)
    IN  [log |-> Cap(Append(c.log, current_time), max_stored_requests),
         ret |-> c.ok, by |-> c.by]

\* the whole of _check_and_update_limits on the client's deque
check_and_update_limits(log, current_time) ==
    LET c == CheckWindows(log, current_time, 1)
    IN  IF c.ok
        THEN [log |-> Cap(Append(c.log, current_time), max_stored_requests),
              ret |-> TRUE, by |-> "none"]
        ELSE [log |-> c.log, ret |-> FALSE, by |-> c.by]

---------------------------------------------------------------------------
(* The queries.                                                            *)

\* sum(1 for req_time in client_requests if req_time >= cutoff_time)
RecentRequests(log, cutoff_time) ==
    Cardinality({i \in DOMAIN log : log[i] >= cutoff_time})

\* Remaining counting the query itself as a request
RemainingLessOne(log, current_time) ==
    [limit_type \in DOMAIN limits |->
        Max(0, limits[limit_type] - 1
               - RecentRequests(log, current_time - windows[limit_type]))]

\* remaining[limit_type] = max(0, limit_count - recent_requests)
Remaining(log, current_time) ==
    [limit_type \in DOMAIN limits |->
        Max(0, limits[limit_type]
               - RecentRequests(log, current_time - windows[limit_type]))]

RECURSIVE OldestInWindow(_, _)
\* for req_time in client_requests: if req_time >= cutoff_time: ... break
\* (<<>> stands for None: no entry of the deque is in the window)
OldestInWindow(log, cutoff_time) ==
    IF log = <<>> THEN <<>>
    ELSE IF Head(log) >= cutoff_time THEN <<Head(log)>>
    ELSE OldestInWindow(Tail(log), cutoff_time)

\* `if oldest_in_window:` is Python truthiness: None and 0 are both false
Truthy(oldest_in_window) ==
    oldest_in_window # <<>> /\ oldest_in_window[1] # 0

\* the loop body of get_reset_times for one window
ResetTimes(log, current_time) ==
    [limit_type \in DOMAIN windows |->
        IF log # <<>>
        THEN LET oldest_in_window ==
                     OldestInWindow(log, current_time - windows[limit_type])
             IN  IF Truthy(oldest_in_window)
                 THEN oldest_in_window[1] + windows[limit_type]
                 ELSE current_time
        ELSE current_time]

\* no denial is pending for a client
NoDenial == [t |-> -1, by |-> "none"]

\* the locals of a worker that has made no call: the operation it runs and
\* what that returned, the locals of is_allowed (client_id, current_time,
\* the window i of the loop), the deque it holds when the map does not
\* (detached, own), the locals of cleanup_old_entries (cutoff_time, the dict
\* iterator's size and the keys it has seen, clients_to_remove) and of
\* get_remaining_requests (remaining, whether the deque iterator's deque
\* was mutated)
NoLocals ==
    [op |-> "none", ret |-> "none",
     client_id |-> "", current_time |-> 0, i |-> 1,
     detached |-> FALSE, own |-> <<>>,
     cutoff_time |-> 0, size |-> 0, seen |-> {}, remove |-> <<>>,
     remaining |-> <<>>, mutated |-> FALSE]

---------------------------------------------------------------------------
(* The state after construction.                                           *)

\* no call was made yet
NoCalls ==
    /\ admitted = [k \in ClientIds |-> <<>>]
    /\ denial = [k \in ClientIds |-> NoDenial]
    /\ last = [op |-> "init"]
    /\ pc = [w \in Workers |-> "idle"]
    /\ loc = [w \in Workers |-> NoLocals]

InitLimiter ==
    /\ now = 0
    /\ requests = <<>>
    /\ NoCalls

Init == InitLimiter /\ recording = "none"

\* the same, keeping the history of admitted calls
InitAdmitted == InitLimiter /\ recording = "admitted"

\* the same, keeping the history of pending denials
InitDenial == InitLimiter /\ recording = "denial"

\* the deques a client can have when no call is running: timestamps up to
\* the clock in non-decreasing order, at most the shortest window's limit of
\* them plus one for every other worker that was admitted concurrently
QuiescentLogs ==
    UNION {{log \in [1..n -> Time] :
               \A j \in 1..(n - 1) : log[j] <= log[j + 1]} :
           n \in 0..(limits["per_minute"] + Cardinality(Workers) - 1)}

\* a limiter that served one client before, at any clock value, with no call
\* running
InitAnyLog ==
    /\ now \in Time
    /\ requests \in {Store(<<>>, k, log) : k \in ClientIds, log \in QuiescentLogs}
    /\ \A k \in DOMAIN requests :
          \A j \in DOMAIN requests[k] : requests[k][j] <= now
    /\ NoCalls
    /\ recording = "none"

\* time passes between two operations
Tick ==
    /\ now < MaxTime
    /\ now' = now + 1
    /\ last' = [op |-> "tick"]
    /\ UNCHANGED <<requests, recording, admitted, denial, pc, loc>>

\* IsAllowedCall without the test of the client address
IsAllowedCallAnyAddress(client_ip, api_key) ==
    LET client_id == ClientId(client_ip, api_key)
        r == check_and_update_limits(Log(requests, client_id), now)
    IN  [op |-> "is_allowed", client_id |-> client_id, t |-> now,
         ret |-> r.ret, by |-> r.by, log |-> r.log,
         fresh |-> client_id \notin DOMAIN requests, denied |-> NoDenial,
         popped |-> 0]

\* the record of one uninterrupted is_allowed call made in the current state:
\* its result, the window that denied it, the client's deque after it, and
\* the number of entries it popped from the deque
IsAllowedCall(client_ip, api_key) ==
    LET client_id == ClientId(client_ip, api_key)
        r == check_and_update_limits(Log(requests, client_id), now)
    IN  IF client_ip = ""
        THEN [op |-> "is_allowed", client_id |-> "", t |-> now,
              ret |-> FALSE, by |-> "none", log |-> <<>>,
              fresh |-> FALSE, denied |-> NoDenial, popped |-> 0]
        ELSE [op |-> "is_allowed", client_id |-> client_id, t |-> now,
              ret |-> r.ret, by |-> r.by, log |-> r.log,
              fresh |-> client_id \notin DOMAIN requests,
              denied |-> denial[client_id],
              popped |-> Len(Log(requests, client_id))
                            + (IF r.ret THEN 1 ELSE 0) - Len(r.log)]

\* IsAllowedEffect of a call that leaves no trace in the limiter
IsAllowedEffectNone(call) == UNCHANGED <<requests, admitted, denial>>

\* the effect of that call on the limiter and on the histories
IsAllowedEffect(call) ==
    IF call.client_id = ""
    THEN UNCHANGED <<requests, admitted, denial>>
    ELSE /\ requests' = Store(requests, call.client_id, call.log)
         /\ admitted' = IF call.ret /\ recording = "admitted"
                        THEN [admitted EXCEPT ![call.client_id] = Append(@, call.t)]
                        ELSE admitted
         /\ denial' = IF recording = "denial"
                      THEN [denial EXCEPT ![call.client_id] =
                               IF call.ret THEN NoDenial
                               ELSE [t |-> call.t, by |-> call.by]]
                      ELSE denial

\* what `last` keeps of a call: its inputs and results, not the deque
Outcome(call) == [f \in DOMAIN call \ {"log", "t"} |-> call[f]]

\* RateLimiter.is_allowed(client_ip, api_key)
is_allowed(client_ip, api_key) ==
    /\ \A w \in Workers : pc[w] = "idle"
    /\ IsAllowedEffect(IsAllowedCall(client_ip, api_key))
    /\ last' = Outcome(IsAllowedCall(client_ip, api_key))
    /\ UNCHANGED <<now, recording, pc, loc>>

\* Lookup recording the query as a request of the client
LookupRecorded(reqs, client_id) ==
    Store(reqs, client_id, Append(Log(reqs, client_id), now))

\* a query reads self.requests[client_id] on the defaultdict, which inserts
\* an empty deque for a client_id that is not in the map
Lookup(reqs, client_id) == Store(reqs, client_id, Log(reqs, client_id))

\* RateLimiter.get_remaining_requests(client_ip, api_key)
get_remaining_requests(client_ip, api_key) ==
    LET client_id == ClientId(client_ip, api_key)
    IN  /\ \A w \in Workers : pc[w] = "idle"
        /\ IF client_ip = ""
           THEN /\ requests' = requests
                /\ last' = [op |-> "get_remaining_requests", client_id |-> "",
                            ret |-> <<>>, fresh |-> FALSE]
           ELSE /\ requests' = Lookup(requests, client_id)
                /\ last' = [op |-> "get_remaining_requests",
                            client_id |-> client_id,
                            ret |-> Remaining(Log(requests, client_id), now),
                            fresh |-> client_id \notin DOMAIN requests]
        /\ UNCHANGED <<now, recording, admitted, denial, pc, loc>>

\* RateLimiter.get_reset_times(client_ip, api_key)
get_reset_times(client_ip, api_key) ==
    LET client_id == ClientId(client_ip, api_key)
    IN  /\ \A w \in Workers : pc[w] = "idle"
        /\ IF client_ip = ""
           THEN /\ requests' = requests
                /\ last' = [op |-> "get_reset_times", client_id |-> "",
                            ret |-> <<>>, fresh |-> FALSE]
           ELSE /\ requests' = Lookup(requests, client_id)
                /\ last' = [op |-> "get_reset_times",
                            client_id |-> client_id,
                            ret |-> ResetTimes(Log(requests, client_id), now),
                            fresh |-> client_id \notin DOMAIN requests]
        /\ UNCHANGED <<now, recording, admitted, denial, pc, loc>>

\* cutoff_time = current_time - (max_age_hours * 3600)
CleanupCutoff(current_time, max_age_hours) ==
    current_time - max_age_hours * SecondsPerHour

\* Cleaned without the deletion of the clients whose deque is empty
CleanedKeepsClients(reqs, cutoff_time) ==
    [k \in DOMAIN reqs |-> Prune(reqs[k], cutoff_time)]

\* the map after cleanup_old_entries: every deque pruned from the front, and
\* the clients whose deque is then empty deleted
Cleaned(reqs, cutoff_time) ==
    LET keep == {k \in DOMAIN reqs : Prune(reqs[k], cutoff_time) # <<>>}
    IN  [k \in keep |-> Prune(reqs[k], cutoff_time)]

\* RateLimiter.cleanup_old_entries(max_age_hours)
cleanup_old_entries(max_age_hours) ==
    LET cutoff_time == CleanupCutoff(now, max_age_hours)
        after == Cleaned(requests, cutoff_time)
    IN  /\ \A w \in Workers : pc[w] = "idle"
        /\ requests' = after
        /\ last' = [op |-> "cleanup_old_entries",
                    cutoff_time |-> cutoff_time,
                    removed |-> DOMAIN requests \ DOMAIN after,
                    shortened |-> {k \in DOMAIN after :
                                      Len(after[k]) < Len(requests[k])}]
        /\ UNCHANGED <<now, recording, admitted, denial, pc, loc>>

---------------------------------------------------------------------------
(* The request handler: require_api_key and submit_form.                   *)

\* HTTP_X_FORWARDED_FOR: absent (<<>>), or present with its value
ForwardedFor == {<<>>, <<"">>, <<"a">>}
\* request.remote_addr
RemoteAddrs == {"a"}
\* the X-API-Key header: absent (""), a configured key, an unknown key
HeaderKeys == {"", "k", "x"}
\* auth.valid_api_keys
valid_api_keys == {"k"}
\* the request body: none, not JSON, JSON that fails validation, valid JSON
Bodies == {"none", "malformed", "invalid", "valid"}
\* a body with the result of the mail call it leads to (a body that is not
\* valid never reaches the mail call)
Submissions ==
    {<<body, email_ok>> \in Bodies \X BOOLEAN : body = "valid" \/ email_ok}

\* APIKeyAuth.is_valid_key
is_valid_key(api_key) == api_key # "" /\ api_key \in valid_api_keys

\* request.environ.get('HTTP_X_FORWARDED_FOR', request.remote_addr)
ClientIp(forwarded, remote_addr) ==
    IF forwarded # <<>> THEN forwarded[1] ELSE remote_addr

\* Handle with the rate limit checked after the body is validated
HandleValidatesFirst(allowed, body, email_ok) ==
    IF body = "malformed"
    THEN [status |-> 500, steps |-> <<"get_json">>]
    ELSE IF body = "none"
    THEN [status |-> 400, steps |-> <<"get_json">>]
    ELSE IF body = "invalid"
    THEN [status |-> 400, steps |-> <<"get_json", "validate_form_data">>]
    ELSE IF ~allowed
    THEN [status |-> 429,
          steps |-> <<"get_json", "validate_form_data", "is_allowed">>]
    ELSE [status |-> IF email_ok THEN 200 ELSE 500,
          steps |-> <<"get_json", "validate_form_data", "is_allowed",
                      "send_form_email">>]

\* the body of submit_form: the calls it makes, in order, and the status it
\* answers with, given what is_allowed returns, the body and the mail result
Handle(allowed, body, email_ok) ==
    IF ~allowed
    THEN [status |-> 429, steps |-> <<"is_allowed">>]
    ELSE IF body = "malformed"
    THEN [status |-> 500, steps |-> <<"is_allowed", "get_json">>]
    ELSE IF body = "none"
    THEN [status |-> 400, steps |-> <<"is_allowed", "get_json">>]
    ELSE IF body = "invalid"
    THEN [status |-> 400,
          steps |-> <<"is_allowed", "get_json", "validate_form_data">>]
    ELSE [status |-> IF email_ok THEN 200 ELSE 500,
          steps |-> <<"is_allowed", "get_json", "validate_form_data",
                      "send_form_email">>]

\* require_api_key answers 401 itself: submit_form is not entered
api_key_rejected(api_key) ==
    /\ \A w \in Workers : pc[w] = "idle"
    /\ ~is_valid_key(api_key)
    /\ last' = [op |-> "submit_form", status |-> 401, steps |-> <<>>]
    /\ UNCHANGED <<now, requests, recording, admitted, denial, pc, loc>>

\* one POST /submit-form that passed require_api_key, served without
\* interruption
submit_form(forwarded, remote_addr, api_key, body, email_ok) ==
    LET call == IsAllowedCall(ClientIp(forwarded, remote_addr), api_key)
        h == Handle(call.ret, body, email_ok)
    IN  /\ \A w \in Workers : pc[w] = "idle"
        /\ is_valid_key(api_key)
        /\ last' = [op |-> "submit_form", status |-> h.status,
                    steps |-> h.steps, client_id |-> call.client_id,
                    ret |-> call.ret]
        /\ IF \E j \in DOMAIN h.steps : h.steps[j] = "is_allowed"
           THEN IsAllowedEffect(call)
           ELSE UNCHANGED <<requests, admitted, denial>>
        /\ UNCHANGED <<now, recording, pc, loc>>

---------------------------------------------------------------------------
(* The specifications.                                                     *)

Next ==
    \/ Tick
    \/ \E client_ip \in ClientIps, api_key \in ApiKeys :
          \/ is_allowed(client_ip, api_key)
          \/ get_remaining_requests(client_ip, api_key)
          \/ get_reset_times(client_ip, api_key)
    \/ \E max_age_hours \in 0..MaxAgeHours :
          cleanup_old_entries(max_age_hours)

\* the limiter's operations, called one at a time
Spec == Init /\ [][Next]_vars

\* requests served one at a time by the handler
NextHandler ==
    \/ Tick
    \/ \E api_key \in HeaderKeys : api_key_rejected(api_key)
    \/ \E forwarded \in ForwardedFor, remote_addr \in RemoteAddrs,
          api_key \in HeaderKeys, sub \in Submissions :
          submit_form(forwarded, remote_addr, api_key, sub[1], sub[2])

SpecHandler == Init /\ [][NextHandler]_vars

\* sequential runs of is_allowed calls under the clock, with their history
NextRuns ==
    \/ Tick
    \/ \E client_ip \in ClientIps, api_key \in ApiKeys :
          is_allowed(client_ip, api_key)

SpecRuns == InitAdmitted /\ [][NextRuns]_vars

\* is_allowed calls under the clock on a limiter found in any quiescent state
SpecAnyLog == InitAnyLog /\ [][NextRuns]_vars

\* is_allowed calls, cleanup sweeps and the clock, with the history of
\* pending denials
NextDenial ==
    \/ Tick
    \/ \E client_ip \in ClientIps, api_key \in ApiKeys :
          is_allowed(client_ip, api_key)
    \/ \E max_age_hours \in 0..MaxAgeHours :
          cleanup_old_entries(max_age_hours)

SpecDenial == InitDenial /\ [][NextDenial]_vars

---------------------------------------------------------------------------
(* The limiter's operations served by concurrent workers: one step per     *)
(* access to the shared map or to a deque, interleaved in any order.       *)
(* A worker holds the deque object it read from the map; when the key is   *)
(* deleted from the map meanwhile, the worker goes on with that object,    *)
(* which the map no longer holds (`detached`, with the object in `own`).   *)
(* A key is deleted by a worker running cleanup_old_entries, so with two   *)
(* workers a detached deque is held by one worker only.                    *)

\* the credential the concurrent requests carry
ConcApiKeys == {"k"}

\* worker w holds a reference to a deque
HasDeque(w) ==
    pc[w] \in {"prune", "pop", "check", "append", "cap",
               "sweep_test", "sweep_pop", "sweep_empty",
               "query_iter", "query_next"}

\* the deque worker w holds
Deque(w) ==
    IF loc[w].detached THEN loc[w].own ELSE requests[loc[w].client_id]

\* workers v and w hold the same deque object
Shares(v, w) ==
    /\ v # w
    /\ HasDeque(v)
    /\ ~loc[v].detached /\ ~loc[w].detached
    /\ loc[v].client_id = loc[w].client_id

\* worker w appends to or pops from the deque it holds, which becomes log:
\* the deque's mutation counter moves, which an iterator another worker has
\* open on the same deque sees at its next step
Mutate(w, log) ==
    /\ requests' = IF loc[w].detached THEN requests
                   ELSE [requests EXCEPT ![loc[w].client_id] = log]
    /\ loc' = [v \in Workers |->
                  IF v = w
                  THEN [loc[w] EXCEPT !.own = IF loc[w].detached THEN log ELSE @]
                  ELSE IF Shares(v, w) /\ pc[v] = "query_next"
                  THEN [loc[v] EXCEPT !.mutated = TRUE]
                  ELSE loc[v]]

\* the call of worker w returns value: its frame is gone, the model keeps
\* what was called and what it returned
Returned(w, value) ==
    [NoLocals EXCEPT !.op = loc[w].op, !.ret = value,
                     !.client_id = loc[w].client_id,
                     !.current_time = loc[w].current_time,
                     !.cutoff_time = loc[w].cutoff_time,
                     !.remaining = loc[w].remaining]

Return(w, value) ==
    /\ pc' = [pc EXCEPT ![w] = "idle"]
    /\ loc' = [loc EXCEPT ![w] = Returned(w, value)]

\* an exception is raised inside the call of worker w
Raise(w, error) ==
    /\ pc' = [pc EXCEPT ![w] = "raised"]
    /\ loc' = [loc EXCEPT ![w].ret = error]

\* lines 26-32: the empty address returns False at once; otherwise the
\* worker derives client_id and reads the clock
WCall(w, client_ip, api_key) ==
    /\ pc[w] = "idle"
    /\ IF client_ip = ""
       THEN UNCHANGED <<pc, loc>>
       ELSE /\ loc' = [loc EXCEPT ![w] =
                          [NoLocals EXCEPT
                              !.op = "is_allowed",
                              !.client_id = ClientId(client_ip, api_key),
                              !.current_time = now]]
            /\ pc' = [pc EXCEPT ![w] = "fetch"]
    /\ UNCHANGED <<now, requests, recording, admitted, denial, last>>

\* line 39: client_requests = self.requests[client_id]
WFetch(w) ==
    /\ pc[w] = "fetch"
    /\ requests' = Lookup(requests, loc[w].client_id)
    /\ pc' = [pc EXCEPT ![w] = "prune"]
    /\ UNCHANGED <<now, recording, admitted, denial, last, loc>>

\* line 47: the test of the pruning loop for the i-th window
WPruneTest(w) ==
    LET log == Deque(w)
        cutoff_time == loc[w].current_time - windows[LimitTypes[loc[w].i]]
    IN  /\ pc[w] = "prune"
        /\ pc' = [pc EXCEPT ![w] =
                     IF log # <<>> /\ Head(log) < cutoff_time
                     THEN "pop" ELSE "check"]
        /\ UNCHANGED <<now, requests, recording, admitted, denial, last, loc>>

\* line 48: client_requests.popleft(), an IndexError on an empty deque
WPop(w) ==
    LET log == Deque(w)
    IN  /\ pc[w] = "pop"
        /\ IF log # <<>>
           THEN /\ Mutate(w, Tail(log))
                /\ pc' = [pc EXCEPT ![w] = "prune"]
           ELSE /\ Raise(w, "IndexError")
                /\ requests' = requests
        /\ UNCHANGED <<now, recording, admitted, denial, last>>

\* lines 51-52 and the loop's advance: return False, the next window, or on
\* to the append
WCheck(w) ==
    LET log == Deque(w)
        limit_type == LimitTypes[loc[w].i]
    IN  /\ pc[w] = "check"
        /\ IF Exceeded(log, limits[limit_type])
           THEN Return(w, "False")
           ELSE IF loc[w].i < Len(LimitTypes)
           THEN /\ pc' = [pc EXCEPT ![w] = "prune"]
                /\ loc' = [loc EXCEPT ![w].i = @ + 1]
           ELSE /\ pc' = [pc EXCEPT ![w] = "append"]
                /\ loc' = loc
        /\ UNCHANGED <<now, requests, recording, admitted, denial, last>>

\* line 55: client_requests.append(current_time)
WAppend(w) ==
    /\ pc[w] = "append"
    /\ Mutate(w, Append(Deque(w), loc[w].current_time))
    /\ pc' = [pc EXCEPT ![w] = "cap"]
    /\ UNCHANGED <<now, recording, admitted, denial, last>>

\* lines 58-62: one turn of the capping loop, or return True
WCap(w) ==
    LET log == Deque(w)
    IN  /\ pc[w] = "cap"
        /\ IF Len(log) > max_stored_requests
           THEN /\ Mutate(w, Tail(log))
                /\ UNCHANGED <<pc, admitted>>
           ELSE /\ requests' = requests
                /\ Return(w, "True")
                /\ admitted' = IF recording = "admitted"
                               THEN [admitted EXCEPT ![loc[w].client_id] =
                                        Append(@, loc[w].current_time)]
                               ELSE admitted
        /\ UNCHANGED <<now, recording, denial, last>>

\* the exception leaves the limiter's method; the worker serves its next
\* request
WRaise(w) ==
    /\ pc[w] = "raised"
    /\ Return(w, loc[w].ret)
    /\ UNCHANGED <<now, requests, recording, admitted, denial, last>>

\* lines 118-119: cleanup_old_entries reads the clock
WSweepCall(w, max_age_hours) ==
    /\ pc[w] = "idle"
    /\ loc' = [loc EXCEPT ![w] =
                  [NoLocals EXCEPT
                      !.op = "cleanup_old_entries",
                      !.current_time = now,
                      !.cutoff_time = CleanupCutoff(now, max_age_hours)]]
    /\ pc' = [pc EXCEPT ![w] = "sweep_iter"]
    /\ UNCHANGED <<now, requests, recording, admitted, denial, last>>

\* line 123: iter(self.requests.items()); the iterator keeps the size the
\* dict has now
WSweepIter(w) ==
    /\ pc[w] = "sweep_iter"
    /\ loc' = [loc EXCEPT ![w].size = Cardinality(DOMAIN requests)]
    /\ pc' = [pc EXCEPT ![w] = "sweep_next"]
    /\ UNCHANGED <<now, requests, recording, admitted, denial, last>>

\* line 123: the iterator's next item, in some order of the keys: a
\* RuntimeError when the dict's size is not the size the iterator kept
WSweepNext(w) ==
    /\ pc[w] = "sweep_next"
    /\ IF Cardinality(DOMAIN requests) # loc[w].size
       THEN Raise(w, "RuntimeError")
       ELSE IF DOMAIN requests \ loc[w].seen # {}
       THEN /\ \E client_id \in DOMAIN requests \ loc[w].seen :
                  loc' = [loc EXCEPT ![w].client_id = client_id,
                                     ![w].seen = @ \cup {client_id},
                                     ![w].detached = FALSE]
            /\ pc' = [pc EXCEPT ![w] = "sweep_test"]
       ELSE /\ pc' = [pc EXCEPT ![w] = "sweep_delete"]
            /\ loc' = loc
    /\ UNCHANGED <<now, requests, recording, admitted, denial, last>>

\* line 125: the test of cleanup's pruning loop
WSweepTest(w) ==
    LET log == Deque(w)
    IN  /\ pc[w] = "sweep_test"
        /\ pc' = [pc EXCEPT ![w] =
                     IF log # <<>> /\ Head(log) < loc[w].cutoff_time
                     THEN "sweep_pop" ELSE "sweep_empty"]
        /\ UNCHANGED <<now, requests, recording, admitted, denial, last, loc>>

\* line 126: requests.popleft(), an IndexError on an empty deque
WSweepPop(w) ==
    LET log == Deque(w)
    IN  /\ pc[w] = "sweep_pop"
        /\ IF log # <<>>
           THEN /\ Mutate(w, Tail(log))
                /\ pc' = [pc EXCEPT ![w] = "sweep_test"]
           ELSE /\ Raise(w, "IndexError")
                /\ requests' = requests
        /\ UNCHANGED <<now, recording, admitted, denial, last>>

\* lines 129-130: if not requests: clients_to_remove.append(client_id)
WSweepEmpty(w) ==
    /\ pc[w] = "sweep_empty"
    /\ loc' = [loc EXCEPT ![w].remove =
                  IF Deque(w) = <<>> THEN Append(@, loc[w].client_id) ELSE @]
    /\ pc' = [pc EXCEPT ![w] = "sweep_next"]
    /\ UNCHANGED <<now, requests, recording, admitted, denial, last>>

\* lines 132-133: one turn of the deleting loop (a KeyError when the key is
\* not in the map any more), or the return; the workers that hold the
\* deleted key's deque keep the object
WSweepDelete(w) ==
    /\ pc[w] = "sweep_delete"
    /\ IF loc[w].remove = <<>>
       THEN /\ Return(w, "None")
            /\ requests' = requests
       ELSE LET client_id == Head(loc[w].remove)
            IN  IF client_id \in DOMAIN requests
                THEN /\ requests' = [k \in DOMAIN requests \ {client_id} |->
                                        requests[k]]
                     /\ loc' = [v \in Workers |->
                                   IF v = w
                                   THEN [loc[w] EXCEPT !.remove = Tail(@)]
                                   ELSE IF /\ HasDeque(v)
                                           /\ ~loc[v].detached
                                           /\ loc[v].client_id = client_id
                                   THEN [loc[v] EXCEPT
                                            !.detached = TRUE,
                                            !.own = requests[client_id]]
                                   ELSE loc[v]]
                     /\ pc' = pc
                ELSE /\ Raise(w, "KeyError")
                     /\ requests' = requests
    /\ UNCHANGED <<now, recording, admitted, denial, last>>

\* lines 66-70: get_remaining_requests returns {} for the empty address;
\* otherwise the worker derives client_id and reads the clock
WQueryCall(w, client_ip, api_key) ==
    /\ pc[w] = "idle"
    /\ IF client_ip = ""
       THEN UNCHANGED <<pc, loc>>
       ELSE /\ loc' = [loc EXCEPT ![w] =
                          [NoLocals EXCEPT
                              !.op = "get_remaining_requests",
                              !.client_id = ClientId(client_ip, api_key),
                              !.current_time = now]]
            /\ pc' = [pc EXCEPT ![w] = "query_fetch"]
    /\ UNCHANGED <<now, requests, recording, admitted, denial, last>>

\* line 71: client_requests = self.requests[client_id]
WQueryFetch(w) ==
    /\ pc[w] = "query_fetch"
    /\ requests' = Lookup(requests, loc[w].client_id)
    /\ pc' = [pc EXCEPT ![w] = "query_iter"]
    /\ UNCHANGED <<now, recording, admitted, denial, last, loc>>

\* line 80: the generator opens an iterator on the deque for the i-th
\* window; the iterator keeps the deque's mutation counter
WQueryIter(w) ==
    /\ pc[w] = "query_iter"
    /\ loc' = [loc EXCEPT ![w].mutated = FALSE]
    /\ pc' = [pc EXCEPT ![w] = "query_next"]
    /\ UNCHANGED <<now, requests, recording, admitted, denial, last>>

\* lines 80-81: the iterator is run to its end, a RuntimeError when the
\* deque was mutated since the iterator was opened (every step of the
\* iterator tests the counter, the last one included); then the next
\* window, or the return
WQueryNext(w) ==
    LET limit_type == LimitTypes[loc[w].i]
        left == Remaining(Deque(w), loc[w].current_time)[limit_type]
    IN  /\ pc[w] = "query_next"
        /\ IF loc[w].mutated
           THEN Raise(w, "RuntimeError")
           ELSE IF loc[w].i < Len(LimitTypes)
           THEN /\ pc' = [pc EXCEPT ![w] = "query_iter"]
                /\ loc' = [loc EXCEPT ![w].i = @ + 1,
                                      ![w].remaining = Append(@, left)]
           ELSE /\ pc' = [pc EXCEPT ![w] = "idle"]
                /\ loc' = [loc EXCEPT ![w] =
                              [Returned(w, "dict") EXCEPT
                                  !.remaining = Append(@, left)]]
        /\ UNCHANGED <<now, requests, recording, admitted, denial, last>>

\* one step of an is_allowed call of worker w
AllowedStep(w) ==
    \/ \E client_ip \in ClientIps, api_key \in ConcApiKeys :
          WCall(w, client_ip, api_key)
    \/ WFetch(w)
    \/ WPruneTest(w)
    \/ WPop(w)
    \/ WCheck(w)
    \/ WAppend(w)
    \/ WCap(w)
    \/ WRaise(w)

NextConc ==
    \/ Tick
    \/ \E w \in Workers : AllowedStep(w)

\* is_allowed called by concurrent workers, with the history of the
\* admitted calls
SpecConc == InitAdmitted /\ [][NextConc]_vars

\* one step of a cleanup_old_entries call of worker w
SweepStep(w) ==
    \/ \E max_age_hours \in 0..MaxAgeHours : WSweepCall(w, max_age_hours)
    \/ WSweepIter(w)
    \/ WSweepNext(w)
    \/ WSweepTest(w)
    \/ WSweepPop(w)
    \/ WSweepEmpty(w)
    \/ WSweepDelete(w)

\* one step of a get_remaining_requests call of worker w
QueryStepOf(w) ==
    \/ \E client_ip \in ClientIps, api_key \in ConcApiKeys :
          WQueryCall(w, client_ip, api_key)
    \/ WQueryFetch(w)
    \/ WQueryIter(w)
    \/ WQueryNext(w)

NextSweep ==
    \/ Tick
    \/ \E w \in Workers : AllowedStep(w) \/ SweepStep(w)

\* is_allowed and cleanup_old_entries called by concurrent workers
SpecSweep == Init /\ [][NextSweep]_vars

NextQuery ==
    \/ Tick
    \/ \E w \in Workers : AllowedStep(w) \/ QueryStepOf(w)

\* is_allowed and get_remaining_requests called by concurrent workers
SpecQuery == Init /\ [][NextQuery]_vars

---------------------------------------------------------------------------
(* The claims.                                                             *)

\* the calls of client k that is_allowed admitted at a time in [s, s + d)
AdmittedIn(k, s, d) ==
    Cardinality({j \in DOMAIN admitted[k] :
                    s <= admitted[k][j] /\ admitted[k][j] < s + d})

\* C1: in a sequential run, for every client and every configured window, the
\* calls admitted within any one interval of the window's duration never
\* number more than the window's limit.
C1_EveryWindowBoundsAdmitted ==
    \A k \in ClientIds, limit_type \in DOMAIN limits, s \in Time :
        AdmittedIn(k, s, windows[limit_type]) <= limits[limit_type]

\* C2: with workers calling is_allowed concurrently for one client, the calls
\* admitted within any one interval of the shortest window's duration never
\* number more than that window's limit (the bound that holds of every
\* sequential run).
C2_ConcurrentAdmittedWithinLimit ==
    \A k \in ClientIds, s \in Time :
        AdmittedIn(k, s, windows["per_minute"]) <= limits["per_minute"]

\* the calls of client k admitted before the latest one, at a time after t
AdmittedEarlierSince(k, t) ==
    Cardinality({j \in 1..(Len(admitted[k]) - 1) : admitted[k][j] > t})

\* the calls of client k admitted at time t or later
AdmittedSince(k, t) ==
    Cardinality({j \in DOMAIN admitted[k] : admitted[k][j] >= t})

\* C3: for every window, a call made when the window's limit of admitted
\* calls already lies strictly inside the window is denied, and a call is
\* denied only when some window holds its limit of admitted calls.
C3_LimitThenDenied ==
    (last.op = "is_allowed" /\ last.client_id # "") =>
        /\ last.ret =>
              \A limit_type \in DOMAIN limits :
                  AdmittedEarlierSince(last.client_id, now - windows[limit_type])
                      < limits[limit_type]
        /\ ~last.ret =>
              \E limit_type \in DOMAIN limits :
                  AdmittedSince(last.client_id, now - windows[limit_type])
                      >= limits[limit_type]

\* the latest call was made by a client whose previous request was denied,
\* after the clock passed the duration of the window that denied it
AfterDenialExpired ==
    /\ last.op = "is_allowed"
    /\ last.client_id # ""
    /\ last.denied # NoDenial
    /\ now > last.denied.t + windows[last.denied.by]

\* C4: the first is_allowed call of a client after its denied call, made once
\* the clock has passed the denying window's duration, returns true.
C4_AdmittedAgainAfterWindow == AfterDenialExpired => last.ret

C4_Witness == AfterDenialExpired /\ last.ret

\* log holds an entry with timestamp t
Holds(log, t) == \E j \in DOMAIN log : log[j] = t

\* C5: for every window, an entry timestamped exactly now - duration is kept
\* by is_allowed and counted as inside the window: the call is denied when
\* the log holds exactly the window's limit of entries with the oldest on
\* that boundary, and get_remaining_requests counts the boundary entry.
C5_BoundaryEntryInside ==
    [][\A client_ip \in ClientIps \ {""}, api_key \in ApiKeys,
         limit_type \in DOMAIN limits :
          LET client_id == ClientId(client_ip, api_key)
              log == Log(requests, client_id)
              boundary == now - windows[limit_type]
          IN  /\ (is_allowed(client_ip, api_key) /\ Holds(log, boundary)) =>
                    /\ Holds(requests'[client_id], boundary)
                    /\ (Len(log) = limits[limit_type] /\ Head(log) = boundary)
                          => ~last'.ret
              /\ (get_remaining_requests(client_ip, api_key)
                    /\ Holds(log, boundary)) =>
                    last'.ret[limit_type] <=
                        limits[limit_type]
                          - Cardinality({j \in DOMAIN log : log[j] = boundary})
      ]_vars

\* a step that is a call of one of the two queries
QueryStep ==
    \E client_ip \in ClientIps, api_key \in ApiKeys :
        \/ get_remaining_requests(client_ip, api_key)
        \/ get_reset_times(client_ip, api_key)

\* C6: a query does not change what any later is_allowed call returns: for
\* every client and every clock value from now on, the call returns the same
\* on the state after the query as on the state before it.
C6_QueriesKeepOutcome ==
    [][(last'.op \in {"get_remaining_requests", "get_reset_times"} /\ QueryStep) =>
          \A k \in ClientIds :
              \* (equal logs give equal results: only a changed log is run)
              \/ Log(requests', k) = Log(requests, k)
              \/ \A t \in now..MaxTime :
                    check_and_update_limits(Log(requests', k), t).ret
                        = check_and_update_limits(Log(requests, k), t).ret
      ]_vars

\* a query was just answered for a client whose log is at the shortest
\* window's limit, so that the next is_allowed call is one the log decides
C6_Witness ==
    /\ last.op \in {"get_remaining_requests", "get_reset_times"}
    /\ last.client_id # ""
    /\ Len(Log(requests, last.client_id)) = limits["per_minute"]
    /\ ~check_and_update_limits(Log(requests, last.client_id), now).ret

\* C7: the queries are read-only: the map has the same client keys and the
\* same logs after a query as before it.
C7_QueriesReadOnly == [][QueryStep => requests' = requests]_vars

\* C8: for a client that is not in the map, is_allowed returns true and
\* get_remaining_requests returns the configured limit of every window.
C8_UnseenClient ==
    /\ (last.op = "is_allowed" /\ last.client_id # "" /\ last.fresh)
          => last.ret
    /\ (last.op = "get_remaining_requests" /\ last.client_id # ""
          /\ last.fresh)
          => \A limit_type \in DOMAIN limits :
                 last.ret[limit_type] = limits[limit_type]

\* an unseen client was just told its quota while another client has a log
C8_Witness ==
    /\ last.op = "get_remaining_requests"
    /\ last.client_id # ""
    /\ last.fresh
    /\ last.ret["per_minute"] = limits["per_minute"]
    /\ \E k \in DOMAIN requests : k # last.client_id /\ requests[k] # <<>>

\* the position of a call in the handler's sequence of calls (0: not made)
StepAt(steps, name) ==
    IF \E j \in DOMAIN steps : steps[j] = name
    THEN CHOOSE j \in DOMAIN steps : steps[j] = name
    ELSE 0

\* C9: submit_form calls is_allowed before it reads or validates the body and
\* before it sends the email, and when is_allowed returns false it answers
\* 429 having made no other call.
C9_RateLimitFirst ==
    (last.op = "submit_form" /\ last.steps # <<>>) =>
        /\ StepAt(last.steps, "is_allowed") = 1
        /\ ~last.ret => /\ last.status = 429
                        /\ last.steps = <<"is_allowed">>

\* a request of a client over its limit was just answered 429
C9_Witness ==
    /\ last.op = "submit_form"
    /\ last.steps # <<>>
    /\ last.client_id # ""
    /\ ~last.ret
    /\ last.status = 429

\* a step that is a call of cleanup_old_entries
CleanupStep(max_age_hours) == cleanup_old_entries(max_age_hours)

\* log has an entry newer than cutoff_time
AnyNewer(log, cutoff_time) == \E j \in DOMAIN log : log[j] > cutoff_time

\* every entry of log is older than cutoff_time
AllOlder(log, cutoff_time) == \A j \in DOMAIN log : log[j] < cutoff_time

\* C10 as stated: cleanup_old_entries deletes a client whose timestamps are
\* all older than the cutoff, and keeps a client that has a newer timestamp
\* with the number of its entries unchanged.
C10_CleanupKeepsCount ==
    [][\A max_age_hours \in 0..MaxAgeHours :
          CleanupStep(max_age_hours) =>
              \A k \in DOMAIN requests :
                  LET cutoff_time == CleanupCutoff(now, max_age_hours)
                  IN  /\ AllOlder(requests[k], cutoff_time)
                            => k \notin DOMAIN requests'
                      /\ AnyNewer(requests[k], cutoff_time)
                            => /\ k \in DOMAIN requests'
                               /\ Len(requests'[k]) = Len(requests[k])
      ]_vars

\* the entries of log that are not older than cutoff_time, in order
NotOlder(log, cutoff_time) == SelectSeq(log, LAMBDA t : t >= cutoff_time)

\* C10 as amended: cleanup_old_entries deletes a client whose timestamps are
\* all older than the cutoff, and keeps a client that has a timestamp at or
\* after the cutoff with exactly its entries that are not older than the
\* cutoff, so with its count unchanged only when none of them is older.
C10_CleanupDropsOlder ==
    [][\A max_age_hours \in 0..MaxAgeHours :
          CleanupStep(max_age_hours) =>
              \A k \in DOMAIN requests :
                  LET cutoff_time == CleanupCutoff(now, max_age_hours)
                  IN  IF AllOlder(requests[k], cutoff_time)
                      THEN k \notin DOMAIN requests'
                      ELSE /\ k \in DOMAIN requests'
                           /\ requests'[k] = NotOlder(requests[k], cutoff_time)
                           /\ Len(requests'[k]) = Len(requests[k])
                                 <=> ~\E j \in DOMAIN requests[k] :
                                         requests[k][j] < cutoff_time
      ]_vars

\* one sweep just deleted a client and shortened the log of another
C10_Witness ==
    /\ last.op = "cleanup_old_entries"
    /\ last.removed # {}
    /\ last.shortened # {}

\* the positions of the entries of log that lie inside the window that starts
\* at cutoff_time
InsideWindow(log, cutoff_time) == {j \in DOMAIN log : log[j] >= cutoff_time}

\* the first position of a non-empty set of positions
First(positions) == CHOOSE j \in positions : \A i \in positions : j <= i

\* C11: for every window, every log and every clock value, get_reset_times
\* returns the timestamp of the earliest log entry inside the window plus
\* the window's duration when there is such an entry (an entry with
\* timestamp 0 included), and the current time otherwise.
C11_ResetAfterEarliest ==
    (last.op = "get_reset_times" /\ last.client_id # "") =>
        \A limit_type \in DOMAIN windows :
            LET log == Log(requests, last.client_id)
                inside == InsideWindow(log, now - windows[limit_type])
            IN  last.ret[limit_type] =
                    IF inside # {}
                    THEN log[First(inside)] + windows[limit_type]
                    ELSE now

\* C12: is_allowed called with an empty client address returns false and
\* leaves the limiter unchanged: the map has the same keys and the same logs
\* after the call as before it.
C12_EmptyAddressNoEffect ==
    [][\A api_key \in ApiKeys :
          (last'.op = "is_allowed" /\ is_allowed("", api_key)) =>
              /\ ~last'.ret
              /\ requests' = requests
      ]_vars

\* a call with an empty address was just denied while the map holds a log
\* with an entry that a call at this clock value would prune
C12_Witness ==
    /\ last.op = "is_allowed"
    /\ last.client_id = ""
    /\ ~last.ret
    /\ \E k \in DOMAIN requests :
          requests[k] # <<>> /\ Head(requests[k]) < now - windows["per_minute"]

\* C13: in every interleaving of concurrent workers every limiter operation
\* returns a value: no call of is_allowed or of get_remaining_requests ends
\* in an exception.
C13_NoOperationRaises == \A w \in Workers : pc[w] # "raised"

\* C14: is_allowed prunes only entries older than the largest window: every
\* entry that was in the client's log before the call with a timestamp
\* within the last windows["per_day"] is still in the log after the call,
\* unless the length cap dropped it.
C14_PrunesOnlyStale ==
    [][(last'.op = "is_allowed" /\ last'.client_id # "") =>
          LET before == Log(requests, last'.client_id)
              after == requests'[last'.client_id]
          IN  \/ Len(after) >= max_stored_requests
              \/ \A j \in DOMAIN before :
                    before[j] >= now - windows["per_day"]
                        => Holds(after, before[j])
      ]_vars

\* the latest call of worker w was is_allowed and returned True, the latest
\* call of worker s was a cleanup sweep that has returned, both workers are
\* idle, and the sweep's cutoff does not make the admitted call's timestamp
\* an old entry
AdmittedAndSwept(w, s) ==
    /\ pc[w] = "idle" /\ pc[s] = "idle"
    /\ loc[w].op = "is_allowed" /\ loc[w].ret = "True"
    /\ loc[s].op = "cleanup_old_entries" /\ loc[s].ret = "None"
    /\ loc[s].cutoff_time <= loc[w].current_time

\* C15: in every interleaving of a cleanup sweep with an is_allowed call,
\* a call that returned True has its timestamp in the log the map holds for
\* its client key once both have finished.
C15_AdmittedSurvivesSweep ==
    \A w \in Workers, s \in Workers :
        AdmittedAndSwept(w, s) =>
            Holds(Log(requests, loc[w].client_id), loc[w].current_time)

\* the windows the loop of a denied call evaluated: those up to the one
\* that denied it
Evaluated(by) == {LimitTypes[j] : j \in 1..StepAt(LimitTypes, by)}

\* C16: a denied is_allowed call records no entry: the client's log after
\* the call is the log before it without a prefix of entries, each strictly
\* older than the cutoff of a window that was evaluated; the window that
\* denied holds its limit of entries; and the same call repeated at the same
\* clock value is denied by the same window and leaves the log as it is.
C16_DeniedRecordsNothing ==
    [][(last'.op = "is_allowed" /\ last'.client_id # "" /\ ~last'.ret) =>
          LET before == Log(requests, last'.client_id)
              after == requests'[last'.client_id]
              n == Len(before) - Len(after)
          IN  /\ n >= 0
              /\ after = SubSeq(before, n + 1, Len(before))
              /\ \A j \in 1..n :
                    \E limit_type \in Evaluated(last'.by) :
                        before[j] < now - windows[limit_type]
              /\ Len(after) >= limits[last'.by]
              /\ check_and_update_limits(after, now)
                    = [log |-> after, ret |-> FALSE, by |-> last'.by]
      ]_vars

\* a call was just denied after it pruned an entry of the client's log
C16_Witness ==
    /\ last.op = "is_allowed"
    /\ last.client_id # ""
    /\ ~last.ret
    /\ last.popped > 0

\* the timestamps of log are non-decreasing from front to back
NonDecreasing(log) == \A j \in 1..(Len(log) - 1) : log[j] <= log[j + 1]

\* C17: in every reachable state of runs in which concurrent workers call
\* is_allowed and cleanup_old_entries under a non-decreasing clock, the
\* timestamps of every client's log are non-decreasing from front to back.
C17_LogsNonDecreasing == \A k \in DOMAIN requests : NonDecreasing(requests[k])

\* C18: after every is_allowed call that returns, the client's log holds at
\* most as many entries as the largest limit over all windows.
C18_LogWithinCap ==
    (last.op = "is_allowed" /\ last.client_id # "") =>
        \E limit_type \in DOMAIN limits :
            Len(requests[last.client_id]) <= limits[limit_type]

\* a call just returned for a client whose log is longer than the shortest
\* window's limit
C18_Witness ==
    /\ last.op = "is_allowed"
    /\ last.client_id # ""
    /\ Len(requests[last.client_id]) > limits["per_minute"]

\* get_remaining_requests on log at clock t reports a remaining count
\* greater than 0 for every window
QuotaLeft(log, t) ==
    \A limit_type \in DOMAIN limits : Remaining(log, t)[limit_type] > 0

\* C19: in every reachable state in which no call is running, for every
\* client key and every clock value from now on, is_allowed called on the
\* state at that clock value returns true exactly when
\* get_remaining_requests called on the same state at the same clock value
\* reports a remaining count greater than 0 for every window.
C19_AdmissionAgreesWithQuery ==
    (\A w \in Workers : pc[w] = "idle") =>
        \A k \in ClientIds, t \in now..MaxTime :
            check_and_update_limits(Log(requests, k), t).ret
                <=> QuotaLeft(Log(requests, k), t)

\* C20: an is_allowed call for client key k works on the one log of k: its
\* result and the log it leaves are those of _check_and_update_limits on the
\* log the map holds for k, whatever the map holds for other keys, and every
\* other key is in the map after the call exactly when it was before, with
\* the same log.
C20_BucketsIsolated ==
    [][(last'.op = "is_allowed" /\ last'.client_id # "") =>
          LET k == last'.client_id
              r == check_and_update_limits(Log(requests, k), now)
          IN  /\ last'.ret = r.ret
              /\ requests'[k] = r.log
              /\ DOMAIN requests' = DOMAIN requests \cup {k}
              /\ \A other \in DOMAIN requests \ {k} :
                    requests'[other] = requests[other]
      ]_vars

\* a client was just admitted while another client key is at the shortest
\* window's limit, so that a call for that other key is denied
C20_Witness ==
    /\ last.op = "is_allowed"
    /\ last.client_id # ""
    /\ last.ret
    /\ \E other \in DOMAIN requests \ {last.client_id} :
          /\ Len(requests[other]) = limits["per_minute"]
          /\ ~check_and_update_limits(requests[other], now).ret

\* the statuses submit_form answers with after is_allowed admitted the
\* request and the request then failed: no or invalid body, failed dispatch
FailedStatuses == {400, 500}

\* C21: a request that is_allowed admitted consumes quota also when the
\* handler then answers 400 or 500: the log of the client is the one
\* _check_and_update_limits leaves for an admitted call, it holds the
\* timestamp of the request, and get_remaining_requests at that clock value
\* reports less than the limit for every window.
C21_FailedRequestConsumesQuota ==
    [][(/\ last'.op = "submit_form"
        /\ last'.steps # <<>>
        /\ last'.ret
        /\ last'.status \in FailedStatuses) =>
          LET k == last'.client_id
              after == Log(requests', k)
              r == check_and_update_limits(Log(requests, k), now)
          IN  /\ r.ret
              /\ after = r.log
              /\ Holds(after, now)
              /\ \A limit_type \in DOMAIN limits :
                    Remaining(after, now)[limit_type]
                        < limits[limit_type]
      ]_vars

\* a request was just admitted and answered 400 or 500, and it took the
\* last of the client's quota: the next call of the client is denied
C21_Witness ==
    /\ last.op = "submit_form"
    /\ last.steps # <<>>
    /\ last.ret
    /\ last.status \in FailedStatuses
    /\ ~check_and_update_limits(requests[last.client_id], now).ret

===========================================================================
